---- MODULE Spec2Model ----
(***************************************************************************)
(* Wallet and usage-ledger engine of the billing system.                   *)
(*                                                                         *)
(* The three tables (wallet_balances, credit_grants, usage_ledger) are the *)
(* state.  Every model method is a small state machine run by a worker:    *)
(* one step per database statement, so that the statements of two calls    *)
(* can interleave the way two requests interleave on the database.  A      *)
(* statement issued on the transaction handle (tx) becomes visible to the  *)
(* other workers when the transaction commits; a statement issued on       *)
(* this.db is committed on its own.  The isolation level is the database   *)
(* default (READ COMMITTED): a plain SELECT takes no lock.                 *)
(***************************************************************************)
EXTENDS Integers, Sequences, FiniteSets, TLC

VARIABLES
  walletBalances,   \* table wallet_balances: one row per user
  creditGrants,     \* table credit_grants, in insertion order
  usageLedger,      \* table usage_ledger, in insertion order
  proc,             \* the workers: where each is in its call, and its result
  debited,          \* per user, the credits taken by successful deductCredits
  nops,             \* calls issued so far
  userSubscriptions, \* table user_subscriptions, in order of createdAt
  clock,            \* the time new Date() returns
  FEATURE_FLAGS     \* the flags the process read from its environment

vars ==
  <<walletBalances, creditGrants, usageLedger, proc, debited, nops,
    userSubscriptions, clock, FEATURE_FLAGS>>

(***************************************************************************)
(* Bounds of the model and the inputs drawn by the operations.             *)
(***************************************************************************)
MaxOps == 4

Users == {"u1", "u2"}
Procs == {"p1", "p2"}
Keys == {"k1", "k2"}

\* non-overlapping calls: one worker, one user
SeqProcs == {"p1"}
SeqUsers == {"u1"}
GrantAmounts == {30, 50}
ResetAmounts == {100}
DeductAmounts == {70, 150}

\* overlapping wallet calls of two workers for one user
ConcUsers == {"u1"}
ConcGrantAmounts == {50}
ConcDeductAmounts == {60}

\* usage recording: total token counts of the usage object (0: missing),
\* and what the external pricing function answers
TokenCounts == {0, 100}
PricedCredits == {120, 90000}

\* usage recording by two workers, and next to the wallet calls
LedgerUsers == {"u1"}
LedgerPriced == {120}
EntryCredits == {120}

(***************************************************************************)
(* Types of the source.                                                    *)
(***************************************************************************)
CreditSource == {"free", "subscription", "package", "promo"}

\* the sources of the billing configuration: those of the wallet model and
\* 'refund'
CREDIT_SOURCES == CreditSource \cup {"refund"}

NoSource == "none"

InitialFreeCredits == 100000

NoRow ==
  [userId |-> "none", freeCredits |-> 0, subscriptionCredits |-> 0,
   packageCredits |-> 0, totalCredits |-> 0]

NoEntry ==
  [id |-> 0, userId |-> "none", credits |-> 0, source |-> NoSource,
   status |-> "none", idempotencyKey |-> "none"]

\* no idempotency key generated
NoKey == [userId |-> "none", messageId |-> "none", timestamp |-> 0]

NoResult ==
  [kind |-> "none", required |-> 0, available |-> 0, source |-> NoSource,
   remainingCredits |-> 0, entry |-> NoEntry, canAfford |-> FALSE,
   walletTotal |-> 0, calculatedTotal |-> 0, difference |-> 0,
   needsAdjustment |-> FALSE, generatedKey |-> NoKey, enabled |-> FALSE]

\* the (required, available) of the service's error class, which takes
\* them in the other order
InsufficientCreditsErrorSwapped(required, available) ==
  [NoResult EXCEPT !.kind = "InsufficientCredits", !.required = available,
                   !.available = required]

\* new InsufficientCreditsError(required, available)
InsufficientCreditsError(required, available) ==
  [NoResult EXCEPT !.kind = "InsufficientCredits", !.required = required,
                   !.available = available]

\* the value a successful deductCredits returns
DeductResult(deductedFrom, newTotalCredits) ==
  [NoResult EXCEPT !.kind = "ok", !.source = deductedFrom,
                   !.remainingCredits = newTotalCredits]

\* a call that returns nothing (Promise<void>) or the wallet itself
OkResult == [NoResult EXCEPT !.kind = "ok"]

\* a call that returns a usage-ledger entry
EntryResult(entry) == [NoResult EXCEPT !.kind = "ok", !.entry = entry]

\* new IdempotencyError()
IdempotencyError == [NoResult EXCEPT !.kind = "IdempotencyError"]

\* new InvalidUsageDataError(...)
InvalidUsageDataError == [NoResult EXCEPT !.kind = "InvalidUsageData"]

\* a statement the database rejects (primary key or unique constraint)
StorageFailure == [NoResult EXCEPT !.kind = "StorageFailure"]

Idle ==
  [pc |-> "idle", op |-> "none", userId |-> "none", credits |-> 0,
   source |-> NoSource, key |-> "none", snap |-> NoRow, pre |-> NoRow,
   post |-> NoRow, preEntry |-> NoEntry, preGrants |-> 0, preLedger |-> 0,
   totalGranted |-> 0, tokens |-> 0, overlapped |-> FALSE,
   result |-> NoResult]

(***************************************************************************)
(* Table access.                                                           *)
(***************************************************************************)
\* db.query.walletBalances.findFirst({ where: eq(userId) })
FindWallet(userId) == {w \in walletBalances : w.userId = userId}

\* a lookup that never finds the row
WalletNeverFound(userId) == FALSE

\* an UPDATE without WHERE clause: every row matches
WhereEveryRow(w, userId) == TRUE

\* .where(eq(walletBalances.userId, userId)) of the UPDATE statements
WhereUserId(w, userId) == w.userId = userId

HasWallet(userId) == FindWallet(userId) # {}

RowOf(userId) ==
  IF HasWallet(userId) THEN CHOOSE w \in FindWallet(userId) : TRUE ELSE NoRow

Min(a, b) == IF a <= b THEN a ELSE b

(***************************************************************************)
(* deductCredits: the computation between the read and the update.         *)
(***************************************************************************)
Plan(pkg, sub, free, remaining, from) ==
  [packageCredits |-> pkg, subscriptionCredits |-> sub, freeCredits |-> free,
   remainingToDeduct |-> remaining, deductedFrom |-> from]

\* switch (source): the bucket named by the caller, nothing else
DeductFromSource(wallet, credits, source) ==
  IF source = "package" /\ wallet.packageCredits >= credits
    THEN Plan(wallet.packageCredits - credits, wallet.subscriptionCredits,
              wallet.freeCredits, 0, "package")
  ELSE IF source = "subscription" /\ wallet.subscriptionCredits >= credits
    THEN Plan(wallet.packageCredits, wallet.subscriptionCredits - credits,
              wallet.freeCredits, 0, "subscription")
  ELSE IF source = "free" /\ wallet.freeCredits >= credits
    THEN Plan(wallet.packageCredits, wallet.subscriptionCredits,
              wallet.freeCredits - credits, 0, "free")
  ELSE Plan(wallet.packageCredits, wallet.subscriptionCredits,
            wallet.freeCredits, credits, NoSource)

\* a draw-down that starts with the free bucket (the order reversed)
DeductAutoFreeFirst(wallet, credits) ==
  LET fromFree == Min(wallet.freeCredits, credits)
      afterFree == credits - fromFree
      fromSub == Min(wallet.subscriptionCredits, afterFree)
      afterSub == afterFree - fromSub
      fromPkg == Min(wallet.packageCredits, afterSub)
  IN  Plan(wallet.packageCredits - fromPkg, wallet.subscriptionCredits - fromSub,
           wallet.freeCredits - fromFree, afterSub - fromPkg,
           IF fromPkg > 0 THEN "package"
           ELSE IF fromSub > 0 THEN "subscription" ELSE "free")

\* a draw-down without Math.min: the first bucket that holds anything pays all
DeductAutoNoMin(wallet, credits) ==
  IF wallet.packageCredits > 0
    THEN Plan(wallet.packageCredits - credits, wallet.subscriptionCredits,
              wallet.freeCredits, 0, "package")
  ELSE IF wallet.subscriptionCredits > 0
    THEN Plan(wallet.packageCredits, wallet.subscriptionCredits - credits,
              wallet.freeCredits, 0, "subscription")
  ELSE Plan(wallet.packageCredits, wallet.subscriptionCredits,
            wallet.freeCredits - credits, 0, "free")

\* automatic order: package, then subscription, then free
DeductAuto(wallet, credits) ==
  LET usePkg == wallet.packageCredits > 0 /\ credits > 0
      fromPkg == IF usePkg THEN Min(wallet.packageCredits, credits) ELSE 0
      afterPkg == credits - fromPkg
      useSub == wallet.subscriptionCredits > 0 /\ afterPkg > 0
      fromSub == IF useSub THEN Min(wallet.subscriptionCredits, afterPkg) ELSE 0
      afterSub == afterPkg - fromSub
      useFree == wallet.freeCredits > 0 /\ afterSub > 0
      fromFree == IF useFree THEN Min(wallet.freeCredits, afterSub) ELSE 0
  IN  Plan(wallet.packageCredits - fromPkg, wallet.subscriptionCredits - fromSub,
           wallet.freeCredits - fromFree, afterSub - fromFree,
           IF useFree THEN "free"
           ELSE IF useSub THEN "subscription"
           ELSE IF usePkg THEN "package" ELSE NoSource)

\* if (source) { switch } else { automatic order }
DeductPlan(wallet, credits, source) ==
  IF source # NoSource THEN DeductFromSource(wallet, credits, source)
  ELSE DeductAuto(wallet, credits)

\* an UPDATE of the three buckets that leaves totalCredits as it was
DeductSetBucketsOnly(w, plan) ==
  [w EXCEPT !.packageCredits = plan.packageCredits,
            !.subscriptionCredits = plan.subscriptionCredits,
            !.freeCredits = plan.freeCredits]

\* tx.update(walletBalances).set({...all four columns...}).where(eq(userId))
DeductSet(w, plan) ==
  [w EXCEPT !.packageCredits = plan.packageCredits,
            !.subscriptionCredits = plan.subscriptionCredits,
            !.freeCredits = plan.freeCredits,
            !.totalCredits = plan.packageCredits + plan.subscriptionCredits
                             + plan.freeCredits]

(***************************************************************************)
(* grantCredits and resetFreeCredits: the columns their UPDATE sets, from  *)
(* the wallet row that getOrCreateWallet returned.                         *)
(***************************************************************************)
\* a grant that leaves totalCredits as it was read
GrantSetStaleTotal(w, wallet, credits, source) ==
  IF source = "free"
    THEN [w EXCEPT !.freeCredits = wallet.freeCredits + credits,
                   !.totalCredits = wallet.totalCredits]
  ELSE IF source = "subscription"
    THEN [w EXCEPT !.subscriptionCredits = wallet.subscriptionCredits + credits,
                   !.totalCredits = wallet.totalCredits]
  ELSE [w EXCEPT !.packageCredits = wallet.packageCredits + credits,
                 !.totalCredits = wallet.totalCredits]

\* switch (source) sets one bucket; totalCredits from the updated bucket and
\* the two buckets as read (updates.x ?? wallet.x)
GrantSet(w, wallet, credits, source) ==
  IF source = "free"
    THEN [w EXCEPT !.freeCredits = wallet.freeCredits + credits,
                   !.totalCredits = (wallet.freeCredits + credits)
                                    + wallet.subscriptionCredits
                                    + wallet.packageCredits]
  ELSE IF source = "subscription"
    THEN [w EXCEPT !.subscriptionCredits = wallet.subscriptionCredits + credits,
                   !.totalCredits = wallet.freeCredits
                                    + (wallet.subscriptionCredits + credits)
                                    + wallet.packageCredits]
  ELSE IF source \in {"package", "promo"}
    THEN [w EXCEPT !.packageCredits = wallet.packageCredits + credits,
                   !.totalCredits = wallet.freeCredits
                                    + wallet.subscriptionCredits
                                    + (wallet.packageCredits + credits)]
  ELSE \* no case of the switch: only totalCredits is set, from the row read
       [w EXCEPT !.totalCredits = wallet.freeCredits
                                  + wallet.subscriptionCredits
                                  + wallet.packageCredits]

\* a reset that adds amount to the free bucket instead of replacing it
ResetSetAdds(w, wallet, amount) ==
  [w EXCEPT !.freeCredits = wallet.freeCredits + amount,
            !.totalCredits = wallet.freeCredits + amount
                             + wallet.subscriptionCredits
                             + wallet.packageCredits]

\* set({ freeCredits: amount, totalCredits: amount + subscription + package })
ResetSet(w, wallet, amount) ==
  [w EXCEPT !.freeCredits = amount,
            !.totalCredits = amount + wallet.subscriptionCredits
                             + wallet.packageCredits]

\* the row getOrCreateWallet inserts for a user without wallet
NewWallet(userId) ==
  [userId |-> userId, freeCredits |-> InitialFreeCredits,
   subscriptionCredits |-> 0, packageCredits |-> 0,
   totalCredits |-> InitialFreeCredits]

\* createCreditGrant: the row appended to credit_grants
Grant(userId, source, credits, reason) ==
  [userId |-> userId, source |-> source, credits |-> credits, reason |-> reason]

(***************************************************************************)
(* Usage ledger and the billing service's helpers.                         *)
(***************************************************************************)
LedgerIds == 1..Len(usageLedger)

\* db.query.usageLedger.findFirst({ where: eq(idempotencyKey, key) })
FindUsageByIdempotencyKey(key) ==
  IF \E i \in LedgerIds : usageLedger[i].idempotencyKey = key
    THEN usageLedger[CHOOSE i \in LedgerIds :
           /\ usageLedger[i].idempotencyKey = key
           /\ \A j \in LedgerIds : usageLedger[j].idempotencyKey = key => i <= j]
    ELSE NoEntry

\* a table without the unique constraint accepts every key
NoUniqueConstraint(key) == FALSE

\* unique('usage_ledger_idempotency_key_unique').on(table.idempotencyKey)
UniqueKeyViolation(key) ==
  \E i \in LedgerIds : usageLedger[i].idempotencyKey = key

\* the entry createUsageLedgerEntry inserts
NewUsageLedgerEntry(userId, credits, source, key) ==
  [id |-> Len(usageLedger) + 1, userId |-> userId, credits |-> credits,
   source |-> source, status |-> "pending", idempotencyKey |-> key]

CeilDiv(a, b) == (a + b - 1) \div b

CreditsPerDollar == 1000000
BufferTenths == 12
MockBalanceCredits == 100000
FallbackUsdPerMillionTokens == 5

\* Math.ceil(estimatedCredits * PRE_CHECK_BUFFER_MULTIPLIER) against the
\* balance getWalletBalance answers (a fixed balance, whatever the tables hold)
CanUserAfford(userId, estimatedCredits) ==
  LET required == CeilDiv(estimatedCredits * BufferTenths, 10)
  IN  [canAfford |-> MockBalanceCredits >= required,
       available |-> MockBalanceCredits, required |-> required]

\* the token counts up to 200 for which the double-precision product
\* ((totalTokens / 1_000_000) * 5) * 1_000_000 is the double next above
\* 5 * totalTokens, not 5 * totalTokens itself
RoundsAbove ==
  {43, 45, 51, 77, 81, 85, 86, 90, 95, 102, 105, 123, 131, 141, 154, 162,
   170, 171, 172, 180, 189, 190}

\* calculateCost when computeChatCost throws: 5 USD per million tokens,
\* costUsd and credits computed in double precision, then Math.ceil
FallbackCredits(totalTokens) ==
  CeilDiv(totalTokens * FallbackUsdPerMillionTokens * CreditsPerDollar, 1000000)
  + (IF totalTokens \in RoundsAbove THEN 1 ELSE 0)

\* the entry recordUsage returns: built in memory, its id (usage_<now>) is
\* no id of the ledger, and nothing is read from or written to the ledger
MockEntry(userId, credits, key) ==
  [id |-> -1, userId |-> userId, credits |-> credits,
   source |-> "free", status |-> "completed", idempotencyKey |-> key]

(***************************************************************************)
(* Workers.  A worker is idle, inside one call, or done: it keeps the      *)
(* result of its last call until it issues the next.  pre, post, preEntry, *)
(* preGrants, preLedger and overlapped are the caller's view: the user's   *)
(* wallet row when the call was issued and when it ended, the ledger entry *)
(* that held the call's key, the number of grant rows and of ledger        *)
(* entries when it was issued, and whether another call was in progress at *)
(* some time during this one.                                              *)
(***************************************************************************)
Busy(q) == proc[q].pc \notin {"idle", "done"}

Quiescent == \A q \in Procs : ~Busy(q)

Issued(p, op, userId, credits, source, key, pc) ==
  [Idle EXCEPT !.pc = pc, !.op = op, !.userId = userId, !.credits = credits,
               !.source = source, !.key = key, !.pre = RowOf(userId),
               !.preEntry = FindUsageByIdempotencyKey(key),
               !.preGrants = Len(creditGrants),
               !.preLedger = Len(usageLedger),
               !.overlapped = \E q \in Procs \ {p} : Busy(q)]

\* worker p takes the record rec; the calls in progress now overlap with it
Enter(p, rec) ==
  [q \in Procs |->
     IF q = p THEN rec
     ELSE IF Busy(q) THEN [proc[q] EXCEPT !.overlapped = TRUE]
     ELSE proc[q]]

CanIssue(p) == proc[p].pc \in {"idle", "done"} /\ nops < MaxOps

Call(p, op, userId, credits, source, key, pc) ==
  /\ CanIssue(p)
  /\ nops' = nops + 1
  /\ proc' = Enter(p, Issued(p, op, userId, credits, source, key, pc))

\* the record rec when its call ends with result, the wallet table being wb
Done(rec, result, wb) ==
  [rec EXCEPT !.pc = "done", !.result = result,
     !.post = IF \E w \in wb : w.userId = rec.userId
              THEN CHOOSE w \in wb : w.userId = rec.userId
              ELSE NoRow]

Finished(p, result, wb) == Done(proc[p], result, wb)

(***************************************************************************)
(* getOrCreateWallet, called by getBalance, grantCredits and               *)
(* resetFreeCredits on this.db: SELECT, then INSERT of the wallet row,     *)
(* then INSERT of the initial grant, each committed on its own.            *)
(***************************************************************************)
\* where the caller goes on once getOrCreateWallet has returned wallet
AfterGetOrCreate(p, wallet, wb) ==
  IF proc[p].op = "getBalance" THEN Finished(p, OkResult, wb)
  ELSE IF proc[p].op = "canAfford"
    THEN Finished(p, [OkResult EXCEPT
                        !.canAfford = wallet.totalCredits >= proc[p].credits], wb)
  ELSE IF proc[p].op = "grantCredits"
    THEN [proc[p] EXCEPT !.pc = "grant_update", !.snap = wallet]
  ELSE IF proc[p].op = "reconcileBalance"
    THEN [proc[p] EXCEPT !.pc = "reconcile_grants", !.snap = wallet]
  ELSE [proc[p] EXCEPT !.pc = "reset_update", !.snap = wallet]

GetOrCreateRead(p) ==
  /\ proc[p].pc = "goc_read"
  /\ IF HasWallet(proc[p].userId)
       THEN proc' = [proc EXCEPT ![p] =
                       AfterGetOrCreate(p, RowOf(proc[p].userId), walletBalances)]
       ELSE proc' = [proc EXCEPT ![p].pc = "goc_insert_wallet"]
  /\ UNCHANGED <<walletBalances, creditGrants, usageLedger, debited, nops,
                 userSubscriptions, clock, FEATURE_FLAGS>>

GetOrCreateInsertWallet(p) ==
  /\ proc[p].pc = "goc_insert_wallet"
  /\ IF HasWallet(proc[p].userId)
       THEN \* user_id is the primary key: the INSERT is rejected and the
            \* call (with its transaction, if any) ends with the error
            /\ proc' = [proc EXCEPT ![p] =
                          Finished(p, StorageFailure, walletBalances)]
            /\ UNCHANGED walletBalances
       ELSE /\ walletBalances' = walletBalances \cup {NewWallet(proc[p].userId)}
            /\ proc' = [proc EXCEPT ![p].pc = "goc_insert_grant",
                                    ![p].snap = NewWallet(proc[p].userId)]
  /\ UNCHANGED <<creditGrants, usageLedger, debited, nops,
                 userSubscriptions, clock, FEATURE_FLAGS>>

GetOrCreateInsertGrant(p) ==
  /\ proc[p].pc = "goc_insert_grant"
  /\ creditGrants' = Append(creditGrants,
       Grant(proc[p].userId, "free", InitialFreeCredits, "monthly_free"))
  /\ proc' = [proc EXCEPT ![p] = AfterGetOrCreate(p, proc[p].snap, walletBalances)]
  /\ UNCHANGED <<walletBalances, usageLedger, debited, nops,
                 userSubscriptions, clock, FEATURE_FLAGS>>

GetBalance(p, userId) ==
  /\ Call(p, "getBalance", userId, 0, NoSource, "none", "goc_read")
  /\ UNCHANGED <<walletBalances, creditGrants, usageLedger, debited,
                 userSubscriptions, clock, FEATURE_FLAGS>>

(***************************************************************************)
(* deductCredits: SELECT and UPDATE inside one transaction.                *)
(***************************************************************************)
DeductCredits(p, userId, credits, source) ==
  /\ Call(p, "deductCredits", userId, credits, source, "none", "deduct_read")
  /\ UNCHANGED <<walletBalances, creditGrants, usageLedger, debited,
                 userSubscriptions, clock, FEATURE_FLAGS>>

DeductRead(p) ==
  /\ proc[p].pc = "deduct_read"
  /\ LET wallet == RowOf(proc[p].userId)
         credits == proc[p].credits
     IN  proc' = [proc EXCEPT ![p] =
           IF ~HasWallet(proc[p].userId)
             THEN Finished(p, InsufficientCreditsError(credits, 0), walletBalances)
           ELSE IF wallet.totalCredits < credits
             THEN Finished(p, InsufficientCreditsError(credits, wallet.totalCredits),
                           walletBalances)
           ELSE IF DeductPlan(wallet, credits, proc[p].source).remainingToDeduct > 0
             THEN Finished(p, InsufficientCreditsError(credits, wallet.totalCredits),
                           walletBalances)
           ELSE [proc[p] EXCEPT !.pc = "deduct_update", !.snap = wallet]]
  /\ UNCHANGED <<walletBalances, creditGrants, usageLedger, debited, nops,
                 userSubscriptions, clock, FEATURE_FLAGS>>

DeductUpdate(p) ==
  /\ proc[p].pc = "deduct_update"
  /\ LET plan == DeductPlan(proc[p].snap, proc[p].credits, proc[p].source)
         wb == {IF WhereUserId(w, proc[p].userId) THEN DeductSet(w, plan) ELSE w :
                  w \in walletBalances}
     IN  /\ walletBalances' = wb
         /\ proc' = [proc EXCEPT ![p] =
              Finished(p, DeductResult(plan.deductedFrom,
                                       plan.packageCredits + plan.subscriptionCredits
                                       + plan.freeCredits), wb)]
  /\ debited' = [debited EXCEPT ![proc[p].userId] = @ + proc[p].credits]
  /\ UNCHANGED <<creditGrants, usageLedger, nops,
                 userSubscriptions, clock, FEATURE_FLAGS>>

(***************************************************************************)
(* grantCredits: the grant row and the wallet UPDATE go through tx and     *)
(* commit together; the wallet is read (and created) through this.db.      *)
(***************************************************************************)
GrantCredits(p, userId, credits, source) ==
  /\ Call(p, "grantCredits", userId, credits, source, "none", "goc_read")
  /\ UNCHANGED <<walletBalances, creditGrants, usageLedger, debited,
                 userSubscriptions, clock, FEATURE_FLAGS>>

GrantUpdate(p) ==
  /\ proc[p].pc = "grant_update"
  /\ LET wb == {IF WhereUserId(w, proc[p].userId)
                  THEN GrantSet(w, proc[p].snap, proc[p].credits, proc[p].source)
                  ELSE w : w \in walletBalances}
     IN  /\ walletBalances' = wb
         /\ proc' = [proc EXCEPT ![p] = Finished(p, OkResult, wb)]
  /\ creditGrants' = Append(creditGrants,
       Grant(proc[p].userId, proc[p].source, proc[p].credits, "purchase"))
  /\ UNCHANGED <<usageLedger, debited, nops,
                 userSubscriptions, clock, FEATURE_FLAGS>>

(***************************************************************************)
(* resetFreeCredits: the same shape, the grant row after the UPDATE.       *)
(***************************************************************************)
ResetFreeCredits(p, userId, amount) ==
  /\ Call(p, "resetFreeCredits", userId, amount, NoSource, "none", "goc_read")
  /\ UNCHANGED <<walletBalances, creditGrants, usageLedger, debited,
                 userSubscriptions, clock, FEATURE_FLAGS>>

ResetUpdate(p) ==
  /\ proc[p].pc = "reset_update"
  /\ LET wb == {IF WhereUserId(w, proc[p].userId)
                  THEN ResetSet(w, proc[p].snap, proc[p].credits)
                  ELSE w : w \in walletBalances}
     IN  /\ walletBalances' = wb
         /\ proc' = [proc EXCEPT ![p] = Finished(p, OkResult, wb)]
  /\ creditGrants' = Append(creditGrants,
       Grant(proc[p].userId, "free", proc[p].credits, "monthly_free"))
  /\ UNCHANGED <<usageLedger, debited, nops,
                 userSubscriptions, clock, FEATURE_FLAGS>>

(***************************************************************************)
(* BillingModel: createUsageLedgerEntry (lookup, then INSERT, both on      *)
(* this.db) and updateUsageStatus (one UPDATE).                            *)
(***************************************************************************)
CreateUsageLedgerEntry(p, userId, credits, source, key) ==
  /\ Call(p, "createUsageLedgerEntry", userId, credits, source, key, "cule_find")
  /\ UNCHANGED <<walletBalances, creditGrants, usageLedger, debited,
                 userSubscriptions, clock, FEATURE_FLAGS>>

CreateEntryFind(p) ==
  /\ proc[p].pc = "cule_find"
  /\ proc' = [proc EXCEPT ![p] =
       IF FindUsageByIdempotencyKey(proc[p].key) # NoEntry
         THEN Finished(p, IdempotencyError, walletBalances)
         ELSE [proc[p] EXCEPT !.pc = "cule_insert"]]
  /\ UNCHANGED <<walletBalances, creditGrants, usageLedger, debited, nops,
                 userSubscriptions, clock, FEATURE_FLAGS>>

CreateEntryInsert(p) ==
  /\ proc[p].pc = "cule_insert"
  /\ IF UniqueKeyViolation(proc[p].key)
       THEN /\ proc' = [proc EXCEPT ![p] =
                          Finished(p, StorageFailure, walletBalances)]
            /\ UNCHANGED usageLedger
       ELSE LET created == NewUsageLedgerEntry(proc[p].userId, proc[p].credits,
                                               proc[p].source, proc[p].key)
            IN  /\ usageLedger' = Append(usageLedger, created)
                /\ proc' = [proc EXCEPT ![p] =
                              Finished(p, EntryResult(created), walletBalances)]
  /\ UNCHANGED <<walletBalances, creditGrants, debited, nops,
                 userSubscriptions, clock, FEATURE_FLAGS>>

UpdateUsageStatus(p, id, status) ==
  /\ CanIssue(p)
  /\ id \in LedgerIds
  /\ nops' = nops + 1
  /\ usageLedger' = [usageLedger EXCEPT ![id].status = status]
  /\ proc' = Enter(p, Done(Issued(p, "updateUsageStatus", usageLedger[id].userId,
                                  0, NoSource, usageLedger[id].idempotencyKey,
                                  "done"),
                           OkResult, walletBalances))
  /\ UNCHANGED <<walletBalances, creditGrants, debited,
                 userSubscriptions, clock, FEATURE_FLAGS>>

(***************************************************************************)
(* BillingService.recordUsage: validation, cost, affordability check, and  *)
(* the entry it returns.  It issues no statement on any table.             *)
(***************************************************************************)
\* the result for a usage object with totalTokens tokens, the pricing
\* function answering priced credits (0: it throws)
\* a recordUsage that computes the cost without looking at the usage data
RecordUsageResultUnvalidated(userId, key, totalTokens, priced) ==
  LET credits == IF priced = 0 THEN FallbackCredits(totalTokens) ELSE priced
      affordCheck == CanUserAfford(userId, credits)
  IN  IF ~affordCheck.canAfford
        THEN [NoResult EXCEPT !.kind = "InsufficientCredits",
                              !.available = affordCheck.available,
                              !.required = affordCheck.required]
      ELSE EntryResult(MockEntry(userId, credits, key))

RecordUsageResult(userId, key, totalTokens, priced) ==
  LET credits == IF priced = 0 THEN FallbackCredits(totalTokens) ELSE priced
      affordCheck == CanUserAfford(userId, credits)
  IN  IF totalTokens = 0 THEN InvalidUsageDataError
      ELSE IF ~affordCheck.canAfford
        THEN \* the service's class: (available, required)
             [NoResult EXCEPT !.kind = "InsufficientCredits",
                              !.available = affordCheck.available,
                              !.required = affordCheck.required]
      ELSE EntryResult(MockEntry(userId, credits, key))

\* a recordUsage that inserts the Pending entry and stops there
RecordUsageInsertOnly(p, userId, key, totalTokens, priced) ==
  /\ CanIssue(p)
  /\ nops' = nops + 1
  /\ proc' = Enter(p, Done([Issued(p, "recordUsage", userId, priced, NoSource,
                                   key, "done") EXCEPT !.tokens = totalTokens],
                           RecordUsageResult(userId, key, totalTokens, priced),
                           walletBalances))
  /\ usageLedger' = Append(usageLedger,
                           NewUsageLedgerEntry(userId, priced, "free", key))
  /\ UNCHANGED <<walletBalances, creditGrants, debited,
                 userSubscriptions, clock, FEATURE_FLAGS>>

RecordUsage(p, userId, key, totalTokens, priced) ==
  /\ CanIssue(p)
  /\ nops' = nops + 1
  /\ proc' = Enter(p, Done([Issued(p, "recordUsage", userId, priced, NoSource,
                                   key, "done") EXCEPT !.tokens = totalTokens],
                           RecordUsageResult(userId, key, totalTokens, priced),
                           walletBalances))
  /\ UNCHANGED <<walletBalances, creditGrants, usageLedger, debited,
                 userSubscriptions, clock, FEATURE_FLAGS>>

(***************************************************************************)
(* Specifications.                                                         *)
(*   Spec        calls do not overlap: one worker issues them in turn      *)
(*   SpecConc    wallet calls of two workers interleave by statement       *)
(*   SpecLedger  usage recording by two workers, interleaved               *)
(***************************************************************************)
Init ==
  /\ walletBalances = {}
  /\ creditGrants = <<>>
  /\ usageLedger = <<>>
  /\ proc = [p \in Procs |-> Idle]
  /\ debited = [u \in Users |-> 0]
  /\ nops = 0
  /\ userSubscriptions = <<>>
  /\ clock = 1
  /\ FEATURE_FLAGS = [ENABLE_BILLING |-> FALSE, ROLLOUT_PERCENTAGE |-> 0]

WalletStep(p) ==
  \/ GetOrCreateRead(p)
  \/ GetOrCreateInsertWallet(p)
  \/ GetOrCreateInsertGrant(p)
  \/ DeductRead(p)
  \/ DeductUpdate(p)
  \/ GrantUpdate(p)
  \/ ResetUpdate(p)

IssueSeq(p) ==
  \/ \E u \in SeqUsers : GetBalance(p, u)
  \/ \E u \in SeqUsers, c \in DeductAmounts, s \in CreditSource \cup {NoSource} :
       DeductCredits(p, u, c, s)
  \/ \E u \in SeqUsers, c \in GrantAmounts, s \in CREDIT_SOURCES :
       GrantCredits(p, u, c, s)
  \/ \E u \in SeqUsers, a \in ResetAmounts : ResetFreeCredits(p, u, a)
  \/ \E u \in SeqUsers, t \in TokenCounts, c \in LedgerPriced :
       RecordUsage(p, u, "k1", t, c)

Next == \E p \in SeqProcs : IssueSeq(p) \/ WalletStep(p)

Spec == Init /\ [][Next]_vars

IssueConc(p) ==
  \/ \E u \in ConcUsers : GetBalance(p, u)
  \/ \E u \in ConcUsers, c \in ConcDeductAmounts : DeductCredits(p, u, c, NoSource)
  \/ \E u \in ConcUsers, c \in ConcGrantAmounts : GrantCredits(p, u, c, "package")
  \/ \E u \in ConcUsers, a \in ResetAmounts : ResetFreeCredits(p, u, a)

NextConc == \E p \in Procs : IssueConc(p) \/ WalletStep(p)

SpecConc == Init /\ [][NextConc]_vars

IssueLedger(p) ==
  \/ \E u \in LedgerUsers : GetBalance(p, u)
  \/ \E u \in Users, c \in EntryCredits, k \in Keys :
       CreateUsageLedgerEntry(p, u, c, "free", k)
  \/ \E id \in LedgerIds, st \in {"completed", "refunded"} :
       UpdateUsageStatus(p, id, st)
  \/ \E u \in LedgerUsers, t \in TokenCounts, c \in LedgerPriced \cup {0} :
       RecordUsage(p, u, "k1", t, c)

LedgerStep(p) ==
  \/ GetOrCreateRead(p)
  \/ GetOrCreateInsertWallet(p)
  \/ GetOrCreateInsertGrant(p)
  \/ CreateEntryFind(p)
  \/ CreateEntryInsert(p)

NextLedger == \E p \in Procs : IssueLedger(p) \/ LedgerStep(p)

SpecLedger == Init /\ [][NextLedger]_vars

(***************************************************************************)
(* Properties.                                                             *)
(***************************************************************************)
RECURSIVE SumCredits(_, _, _)
\* the sum of row.credits over the rows of log that belong to userId and
\* have status keepStatus ("any": every row)
SumCredits(log, userId, keepStatus) ==
  IF log = <<>> THEN 0
  ELSE (IF Head(log).userId = userId
           /\ (keepStatus = "any" \/ Head(log).status = keepStatus)
          THEN Head(log).credits ELSE 0)
       + SumCredits(Tail(log), userId, keepStatus)

GrantLog == [i \in 1..Len(creditGrants) |->
               [userId |-> creditGrants[i].userId,
                credits |-> creditGrants[i].credits, status |-> "grant"]]

TotalGranted(userId) == SumCredits(GrantLog, userId, "any")

TotalCompleted(userId) == SumCredits(usageLedger, userId, "completed")

BucketSum(w) == w.freeCredits + w.subscriptionCredits + w.packageCredits

DoneWith(p, op) == proc[p].pc = "done" /\ proc[p].op = op

\* C1: after any sequence of non-overlapping wallet calls (lazy creation,
\* grantCredits, deductCredits, resetFreeCredits) with positive amounts,
\* every wallet row has totalCredits = freeCredits + subscriptionCredits
\* + packageCredits.
C1_TotalIsSumOfBuckets ==
  \A w \in walletBalances : w.totalCredits = BucketSum(w)

\* a creation, a reset, grants and a deduction that reached the free bucket
C1_Witness ==
  /\ DoneWith("p1", "deductCredits")
  /\ proc["p1"].result.kind = "ok"
  /\ proc["p1"].pre.freeCredits = 100
  /\ proc["p1"].pre.subscriptionCredits > 0
  /\ proc["p1"].pre.packageCredits > 0
  /\ proc["p1"].post.freeCredits < 100
  /\ RowOf("u1") = proc["p1"].post

\* C2: with positive grant, deduct and reset amounts, no bucket and no
\* total of any wallet row is ever negative.
C2_NonNegative ==
  \A w \in walletBalances :
    /\ w.freeCredits >= 0
    /\ w.subscriptionCredits >= 0
    /\ w.packageCredits >= 0
    /\ w.totalCredits >= 0

\* a deduction larger than the package bucket has emptied it
C2_Witness ==
  /\ DoneWith("p1", "deductCredits")
  /\ proc["p1"].result.kind = "ok"
  /\ proc["p1"].pre.packageCredits > 0
  /\ proc["p1"].pre.packageCredits < proc["p1"].credits
  /\ proc["p1"].post.packageCredits = 0

\* C3 (as claimed): at every quiescent point, for every user that was
\* debited only through recorded usage, totalCredits = sum of the user's
\* grants - sum of the user's Completed ledger entries.
C3_Conservation ==
  \A u \in Users :
    (Quiescent /\ HasWallet(u) /\ debited[u] = 0)
      => RowOf(u).totalCredits = TotalGranted(u) - TotalCompleted(u)

\* C4 (as claimed): two overlapping deductions for the same user, issued
\* on the same balance, do not both succeed when the sum of their amounts
\* exceeds that balance.
C4_NoDoubleSpend ==
  \A p, q \in Procs :
    (/\ p # q
     /\ DoneWith(p, "deductCredits") /\ DoneWith(q, "deductCredits")
     /\ proc[p].userId = proc[q].userId
     /\ proc[p].overlapped /\ proc[q].overlapped
     /\ proc[p].pre # NoRow /\ proc[p].pre = proc[q].pre
     /\ proc[p].credits + proc[q].credits > proc[p].pre.totalCredits)
      => ~(proc[p].result.kind = "ok" /\ proc[q].result.kind = "ok")

EntriesWithKey(key) ==
  {i \in LedgerIds : usageLedger[i].idempotencyKey = key}

\* the call of worker p took its entry's credits from the wallet
Debited(p) ==
  /\ proc[p].pre # NoRow
  /\ proc[p].post.totalCredits
       = proc[p].pre.totalCredits - proc[p].result.entry.credits

\* C5 (as claimed): after two successful recordUsage calls with the same
\* key and payload the ledger holds exactly one entry for the key and the
\* wallet was debited by exactly one of the two calls.
C5_RecordUsageIdempotent ==
  \A p, q \in Procs :
    (/\ p # q
     /\ DoneWith(p, "recordUsage") /\ DoneWith(q, "recordUsage")
     /\ proc[p].key = proc[q].key
     /\ proc[p].userId = proc[q].userId
     /\ proc[p].credits = proc[q].credits
     /\ proc[p].result.kind = "ok" /\ proc[q].result.kind = "ok"
     /\ proc[p].pre # NoRow /\ proc[q].pre # NoRow)
      => /\ Cardinality(EntriesWithKey(proc[p].key)) = 1
         /\ Debited(p) # Debited(q)

\* C6 (as claimed): a recordUsage (with valid usage data) or
\* createUsageLedgerEntry call issued when an entry with its key exists
\* returns that entry as a normal result, and the wallet is as before.
C6_ExistingEntryReturned ==
  \A p \in Procs :
    (/\ (DoneWith(p, "recordUsage") \/ DoneWith(p, "createUsageLedgerEntry"))
     /\ ~proc[p].overlapped
     /\ proc[p].result.kind # "InvalidUsageData"
     /\ proc[p].preEntry # NoEntry)
      => /\ proc[p].result = EntryResult(proc[p].preEntry)
         /\ proc[p].post = proc[p].pre

\* C7: the ledger never holds two entries with the same idempotencyKey;
\* of two createUsageLedgerEntry calls with one key at most one returns an
\* entry (an insert that passed the lookup and finds the key taken is
\* rejected), and no wallet row is charged by an insert, accepted or not.
C7_KeyUnique ==
  /\ \A i, j \in LedgerIds :
       usageLedger[i].idempotencyKey = usageLedger[j].idempotencyKey => i = j
  /\ \A p, q \in Procs :
       (/\ p # q
        /\ DoneWith(p, "createUsageLedgerEntry")
        /\ DoneWith(q, "createUsageLedgerEntry")
        /\ proc[p].key = proc[q].key)
         => ~(proc[p].result.kind = "ok" /\ proc[q].result.kind = "ok")
  /\ \A w \in walletBalances : w = NewWallet(w.userId)

\* both inserts passed the lookup; the second was rejected by the constraint
C7_Witness ==
  /\ DoneWith("p1", "createUsageLedgerEntry")
  /\ DoneWith("p2", "createUsageLedgerEntry")
  /\ proc["p1"].key = proc["p2"].key
  /\ proc["p1"].result.kind = "ok"
  /\ proc["p2"].result.kind = "StorageFailure"
  /\ Cardinality(EntriesWithKey(proc["p1"].key)) = 1

\* C8: a successful deduction without preferred source reduces the
\* subscription bucket only if the package bucket ends at 0, and the free
\* bucket only if package and subscription both end at 0; package=50,
\* subscription=30, free=100 and a deduction of 70 give 0, 10 and 100.
C8_PriorityOrder ==
  \A p \in SeqProcs :
    (/\ DoneWith(p, "deductCredits")
     /\ proc[p].source = NoSource
     /\ proc[p].result.kind = "ok")
      => /\ proc[p].post.subscriptionCredits < proc[p].pre.subscriptionCredits
              => proc[p].post.packageCredits = 0
         /\ proc[p].post.freeCredits < proc[p].pre.freeCredits
              => /\ proc[p].post.packageCredits = 0
                 /\ proc[p].post.subscriptionCredits = 0
         /\ (/\ proc[p].pre.packageCredits = 50
             /\ proc[p].pre.subscriptionCredits = 30
             /\ proc[p].pre.freeCredits = 100
             /\ proc[p].credits = 70)
              => /\ proc[p].post.packageCredits = 0
                 /\ proc[p].post.subscriptionCredits = 10
                 /\ proc[p].post.freeCredits = 100

\* the example of the claim
C8_Witness ==
  /\ DoneWith("p1", "deductCredits")
  /\ proc["p1"].source = NoSource
  /\ proc["p1"].credits = 70
  /\ proc["p1"].result.kind = "ok"
  /\ proc["p1"].pre.packageCredits = 50
  /\ proc["p1"].pre.subscriptionCredits = 30
  /\ proc["p1"].pre.freeCredits = 100
  /\ RowOf("u1").packageCredits = 0
  /\ RowOf("u1").subscriptionCredits = 10
  /\ RowOf("u1").freeCredits = 100

\* C9: a deductCredits call for more than the sum of the buckets fails
\* with InsufficientCredits, required = the requested amount, available =
\* the current total (0 without wallet row), and leaves the row unchanged.
C9_InsufficientCredits ==
  \A p \in SeqProcs :
    (/\ DoneWith(p, "deductCredits")
     /\ BucketSum(proc[p].pre) < proc[p].credits)
      => /\ proc[p].result.kind = "InsufficientCredits"
         /\ proc[p].result.required = proc[p].credits
         /\ proc[p].result.available = proc[p].pre.totalCredits
         /\ proc[p].post = proc[p].pre
         /\ RowOf(proc[p].userId) = proc[p].pre

\* total balance 100, a request of 150
C9_Witness ==
  /\ DoneWith("p1", "deductCredits")
  /\ proc["p1"].credits = 150
  /\ proc["p1"].pre.totalCredits = 100
  /\ BucketSum(proc["p1"].pre) = 100
  /\ proc["p1"].result.kind = "InsufficientCredits"
  /\ proc["p1"].result.available = 100
  /\ proc["p1"].result.required = 150

\* the bucket that holds the credits of a source: grantCredits keeps promo
\* credits in packageCredits
BucketOf(w, source) ==
  IF source = "free" THEN w.freeCredits
  ELSE IF source = "subscription" THEN w.subscriptionCredits
  ELSE w.packageCredits

\* C10 (as claimed): with a preferred source, deductCredits succeeds iff
\* the bucket of that source alone covers the amount, takes the amount from
\* that bucket and the total, and leaves the other buckets unchanged, for
\* every source including promo.
C10_PreferredSource ==
  \A p \in SeqProcs :
    (/\ DoneWith(p, "deductCredits")
     /\ proc[p].source \in CreditSource
     /\ proc[p].pre # NoRow)
      => LET ok == proc[p].result.kind = "ok"
             taken == IF ok THEN proc[p].credits ELSE 0
             home == IF proc[p].source = "promo" THEN "package"
                     ELSE proc[p].source
         IN  /\ ok <=> BucketOf(proc[p].pre, proc[p].source) >= proc[p].credits
             /\ \A s \in {"free", "subscription", "package"} :
                  BucketOf(proc[p].post, s) =
                    BucketOf(proc[p].pre, s) - (IF s = home THEN taken ELSE 0)
             /\ proc[p].post.totalCredits = proc[p].pre.totalCredits - taken

Buckets == {"free", "subscription", "package"}

\* C11 (as claimed): a successful grant of c credits, with any source of
\* the configured sources, to a user who has a wallet row inserts exactly
\* one grant row with that source and amount, increases exactly one bucket
\* by c, increases totalCredits by c and leaves the other buckets unchanged.
C11_GrantEffect ==
  \A p \in SeqProcs :
    (/\ DoneWith(p, "grantCredits")
     /\ proc[p].result.kind = "ok"
     /\ proc[p].pre # NoRow)
      => /\ Len(creditGrants) = proc[p].preGrants + 1
         /\ creditGrants[Len(creditGrants)].source = proc[p].source
         /\ creditGrants[Len(creditGrants)].credits = proc[p].credits
         /\ \E b \in Buckets :
              /\ BucketOf(proc[p].post, b) = BucketOf(proc[p].pre, b) + proc[p].credits
              /\ \A o \in Buckets \ {b} :
                   BucketOf(proc[p].post, o) = BucketOf(proc[p].pre, o)
         /\ proc[p].post.totalCredits = proc[p].pre.totalCredits + proc[p].credits

\* C12 (as claimed): after a successful grant of c credits to a user who
\* had no wallet row, the bucket of the source and totalCredits equal c and
\* the other buckets are 0.
C12_GrantSeedsZero ==
  \A p \in SeqProcs :
    (/\ DoneWith(p, "grantCredits")
     /\ proc[p].result.kind = "ok"
     /\ proc[p].source \in CreditSource
     /\ proc[p].pre = NoRow)
      => LET home == IF proc[p].source = "promo" THEN "package"
                     ELSE proc[p].source
         IN  /\ BucketOf(proc[p].post, home) = proc[p].credits
             /\ \A o \in Buckets \ {home} : BucketOf(proc[p].post, o) = 0
             /\ proc[p].post.totalCredits = proc[p].credits

(***************************************************************************)
(* Failing writes.  A statement of grantCredits issued on tx can fail (the *)
(* connection is lost, the statement times out): the callback throws, the  *)
(* transaction rolls back and the call ends with the error.  What          *)
(* getOrCreateWallet wrote on this.db is not part of the transaction.      *)
(***************************************************************************)
\* the INSERT of the grant row, the first statement of the callback, fails
GrantInsertFails(p, userId, credits, source) ==
  /\ CanIssue(p)
  /\ nops' = nops + 1
  /\ proc' = Enter(p, Done(Issued(p, "grantCredits", userId, credits, source,
                                  "none", "done"),
                           StorageFailure, walletBalances))
  /\ UNCHANGED <<walletBalances, creditGrants, usageLedger, debited,
                 userSubscriptions, clock, FEATURE_FLAGS>>

\* the UPDATE of the wallet row, the last statement of the callback, fails
GrantUpdateFails(p) ==
  /\ proc[p].pc = "grant_update"
  /\ proc' = [proc EXCEPT ![p] = Finished(p, StorageFailure, walletBalances)]
  /\ UNCHANGED <<walletBalances, creditGrants, usageLedger, debited, nops,
                 userSubscriptions, clock, FEATURE_FLAGS>>

FaultGrantAmounts == {50}

IssueFault(p) ==
  \/ \E u \in SeqUsers : GetBalance(p, u)
  \/ \E u \in SeqUsers, c \in FaultGrantAmounts, s \in CreditSource :
       GrantCredits(p, u, c, s)
  \/ \E u \in SeqUsers, c \in FaultGrantAmounts, s \in CreditSource :
       GrantInsertFails(p, u, c, s)
  \/ \E u \in SeqUsers, c \in DeductAmounts : DeductCredits(p, u, c, NoSource)
  \/ \E u \in SeqUsers, a \in ResetAmounts : ResetFreeCredits(p, u, a)

NextFault ==
  \E p \in SeqProcs : IssueFault(p) \/ WalletStep(p) \/ GrantUpdateFails(p)

SpecFault == Init /\ [][NextFault]_vars

\* C13 (as claimed): a grantCredits call that ends with a failed write
\* leaves the grant log and the user's wallet row (its absence included)
\* exactly as they were when the call was issued.
C13_GrantAllOrNothing ==
  \A p \in SeqProcs :
    (/\ DoneWith(p, "grantCredits")
     /\ proc[p].result.kind = "StorageFailure")
      => /\ Len(creditGrants) = proc[p].preGrants
         /\ proc[p].post = proc[p].pre
         /\ RowOf(proc[p].userId) = proc[p].pre

\* C14 (as claimed): two overlapping grantCredits calls of a and b credits
\* for the same user, issued on the same wallet row, leave totalCredits
\* increased by a + b.
C14_NoLostUpdate ==
  \A p, q \in Procs :
    (/\ p # q
     /\ DoneWith(p, "grantCredits") /\ DoneWith(q, "grantCredits")
     /\ proc[p].result.kind = "ok" /\ proc[q].result.kind = "ok"
     /\ proc[p].userId = proc[q].userId
     /\ proc[p].overlapped /\ proc[q].overlapped
     /\ proc[p].pre # NoRow /\ proc[p].pre = proc[q].pre)
      => RowOf(proc[p].userId).totalCredits
           = proc[p].pre.totalCredits + proc[p].credits + proc[q].credits

\* C15 (as claimed): in every state reached by interleaving the statements
\* of grantCredits, resetFreeCredits and deductCredits calls of one user,
\* the total of the committed wallet row is the sum of its three buckets.
C15_TotalIsSumInterleaved ==
  \A u \in ConcUsers :
    HasWallet(u) => RowOf(u).totalCredits = BucketSum(RowOf(u))

(***************************************************************************)
(* Affordability checks and usage recording against a wallet whose balance *)
(* is set by resets and grants: WalletModel.canAfford reads the wallet     *)
(* through getOrCreateWallet, BillingService.canUserAfford answers from    *)
(* the balance of getWalletBalance.                                        *)
(***************************************************************************)
ServiceResetAmounts == {1100, 1300}
\* token counts of the calls whose pricing function throws
FallbackTokenCounts == {43, 100}
ServiceGrantAmounts == {10000}
ServiceDeductAmounts == {1200}
Estimates == {1000}

\* WalletModel.canAfford(userId, estimatedCredits)
CanAfford(p, userId, estimatedCredits) ==
  /\ Call(p, "canAfford", userId, estimatedCredits, NoSource, "none", "goc_read")
  /\ UNCHANGED <<walletBalances, creditGrants, usageLedger, debited,
                 userSubscriptions, clock, FEATURE_FLAGS>>

\* BillingService.canUserAfford(userId, estimatedCredits)
CanUserAffordCall(p, userId, estimatedCredits) ==
  /\ CanIssue(p)
  /\ nops' = nops + 1
  /\ LET check == CanUserAfford(userId, estimatedCredits)
     IN  proc' = Enter(p, Done(Issued(p, "canUserAfford", userId,
                                      estimatedCredits, NoSource, "none", "done"),
                               [OkResult EXCEPT !.canAfford = check.canAfford,
                                                !.available = check.available,
                                                !.required = check.required],
                               walletBalances))
  /\ UNCHANGED <<walletBalances, creditGrants, usageLedger, debited,
                 userSubscriptions, clock, FEATURE_FLAGS>>

IssueService(p) ==
  \/ \E u \in SeqUsers : GetBalance(p, u)
  \/ \E u \in SeqUsers, a \in ServiceResetAmounts : ResetFreeCredits(p, u, a)
  \/ \E u \in SeqUsers, c \in ServiceGrantAmounts :
       GrantCredits(p, u, c, "package")
  \/ \E u \in SeqUsers, c \in ServiceDeductAmounts :
       DeductCredits(p, u, c, NoSource)
  \/ \E u \in SeqUsers, e \in Estimates : CanAfford(p, u, e)
  \/ \E u \in SeqUsers, e \in Estimates : CanUserAffordCall(p, u, e)
  \/ \E u \in SeqUsers, t \in TokenCounts, c \in PricedCredits :
       RecordUsage(p, u, "k1", t, c)
  \/ \E u \in SeqUsers, t \in FallbackTokenCounts : RecordUsage(p, u, "k1", t, 0)

NextService == \E p \in SeqProcs : IssueService(p) \/ WalletStep(p)

SpecService == Init /\ [][NextService]_vars

\* ceil(estimatedCredits * 1.2)
Required(estimatedCredits) == CeilDiv(estimatedCredits * BufferTenths, 10)

\* C16 (as claimed): for a user with a wallet row, the affordability check
\* answers required = ceil(estimatedCredits * 1.2), available = the user's
\* current totalCredits, and canAfford = TRUE iff that total is at least
\* required (estimate 1000: a balance of 1100 gives FALSE, 1300 gives TRUE).
C16_BufferCheck ==
  \A p \in SeqProcs :
    (DoneWith(p, "canUserAfford") /\ proc[p].pre # NoRow)
      => /\ proc[p].result.required = Required(proc[p].credits)
         /\ proc[p].result.available = proc[p].pre.totalCredits
         /\ proc[p].result.canAfford
              <=> proc[p].pre.totalCredits >= Required(proc[p].credits)

\* C17 (as claimed): a canAfford call, of the wallet model or of the
\* service, for a user with or without wallet row leaves the wallet table,
\* the grant log and the usage ledger as they were.
C17_CanAffordReadOnly ==
  \A p \in SeqProcs :
    (DoneWith(p, "canAfford") \/ DoneWith(p, "canUserAfford"))
      => /\ proc[p].post = proc[p].pre
         /\ Len(creditGrants) = proc[p].preGrants
         /\ Len(usageLedger) = proc[p].preLedger

\* C18 (as claimed): a recordUsage call with valid usage data and a key
\* that holds no entry, for a user whose balance is below the required
\* amount, fails with InsufficientCredits, writes no ledger entry and leaves
\* the wallet as it was; issued when the balance covers the required amount
\* (after a grant, say) it succeeds, leaves one entry for the key and takes
\* the credits once.
C18_UnaffordableNotRecorded ==
  \A p \in SeqProcs :
    (/\ DoneWith(p, "recordUsage")
     /\ proc[p].result.kind # "InvalidUsageData"
     /\ proc[p].pre # NoRow
     /\ proc[p].preEntry = NoEntry)
      => IF proc[p].pre.totalCredits < Required(proc[p].credits)
           THEN /\ proc[p].result.kind = "InsufficientCredits"
                /\ EntriesWithKey(proc[p].key) = {}
                /\ proc[p].post = proc[p].pre
           ELSE /\ proc[p].result.kind = "ok"
                /\ Cardinality(EntriesWithKey(proc[p].key)) = 1
                /\ proc[p].post.totalCredits
                     = proc[p].pre.totalCredits - proc[p].credits

C20_StatusForwardOnly ==
  [][/\ \A i \in 1..Len(usageLedger') :
          i \notin LedgerIds => usageLedger'[i].status = "pending"
     /\ \A i \in LedgerIds :
          /\ usageLedger[i].status # "pending"
               => usageLedger'[i].status # "pending"
          /\ usageLedger[i].status = "refunded"
               => usageLedger'[i].status = "refunded"]_vars

(***************************************************************************)
(* Reconciliation.  WalletModel.reconcileBalance reads the wallet through  *)
(* getOrCreateWallet, then sums the user's grants and the user's ledger    *)
(* entries, one SELECT each; BillingService.reconcileWalletBalance answers *)
(* with a fixed report.                                                    *)
(***************************************************************************)
ReconcileEntryCredits == {120, 1000, 2000}
ReconcileDeductAmounts == {100000}

Abs(x) == IF x < 0 THEN -x ELSE x

\* a threshold that a difference of exactly 1% already exceeds
NeedsAdjustmentFromOnePercent(difference, walletTotal) ==
  difference * 100 >= walletTotal

\* difference > wallet.totalCredits * 0.01, both sides times 100
NeedsAdjustment(difference, walletTotal) == difference * 100 > walletTotal

\* the report for the wallet row read, the sum of the grants and the sum of
\* the ledger entries
ReconcileReport(wallet, totalGranted, totalUsed) ==
  LET calculatedTotal == totalGranted - totalUsed
      difference == Abs(wallet.totalCredits - calculatedTotal)
  IN  [OkResult EXCEPT
         !.walletTotal = wallet.totalCredits,
         !.calculatedTotal = calculatedTotal,
         !.difference = difference,
         !.needsAdjustment = NeedsAdjustment(difference, wallet.totalCredits)]

ReconcileBalance(p, userId) ==
  /\ Call(p, "reconcileBalance", userId, 0, NoSource, "none", "goc_read")
  /\ UNCHANGED <<walletBalances, creditGrants, usageLedger, debited,
                 userSubscriptions, clock, FEATURE_FLAGS>>

\* select sum(credits) from credit_grants where user_id = userId
ReconcileSumGrants(p) ==
  /\ proc[p].pc = "reconcile_grants"
  /\ proc' = [proc EXCEPT ![p].pc = "reconcile_usage",
                          ![p].totalGranted = TotalGranted(proc[p].userId)]
  /\ UNCHANGED <<walletBalances, creditGrants, usageLedger, debited, nops,
                 userSubscriptions, clock, FEATURE_FLAGS>>

\* select sum(credits) from usage_ledger where user_id = userId
ReconcileSumUsage(p) ==
  /\ proc[p].pc = "reconcile_usage"
  /\ LET totalUsed == SumCredits(usageLedger, proc[p].userId, "any")
     IN  proc' = [proc EXCEPT ![p] =
           Finished(p, ReconcileReport(proc[p].snap, proc[p].totalGranted,
                                       totalUsed), walletBalances)]
  /\ UNCHANGED <<walletBalances, creditGrants, usageLedger, debited, nops,
                 userSubscriptions, clock, FEATURE_FLAGS>>

\* BillingService.reconcileWalletBalance: the fixed report
ReconcileWalletBalance(p, userId) ==
  /\ CanIssue(p)
  /\ nops' = nops + 1
  /\ proc' = Enter(p, Done(Issued(p, "reconcileWalletBalance", userId, 0,
                                  NoSource, "none", "done"),
                           [OkResult EXCEPT
                              !.walletTotal = MockBalanceCredits,
                              !.calculatedTotal = MockBalanceCredits,
                              !.difference = 0, !.needsAdjustment = FALSE],
                           walletBalances))
  /\ UNCHANGED <<walletBalances, creditGrants, usageLedger, debited,
                 userSubscriptions, clock, FEATURE_FLAGS>>

IssueReconcile(p) ==
  \/ \E u \in SeqUsers : GetBalance(p, u)
  \/ \E u \in SeqUsers, c \in ReconcileDeductAmounts :
       DeductCredits(p, u, c, NoSource)
  \/ \E u \in SeqUsers, c \in ReconcileEntryCredits, k \in Keys :
       CreateUsageLedgerEntry(p, u, c, "free", k)
  \/ \E id \in LedgerIds, st \in {"completed", "refunded"} :
       UpdateUsageStatus(p, id, st)
  \/ \E u \in SeqUsers : ReconcileBalance(p, u)
  \/ \E u \in SeqUsers : ReconcileWalletBalance(p, u)

ReconcileStep(p) ==
  \/ GetOrCreateRead(p)
  \/ GetOrCreateInsertWallet(p)
  \/ GetOrCreateInsertGrant(p)
  \/ DeductRead(p)
  \/ DeductUpdate(p)
  \/ CreateEntryFind(p)
  \/ CreateEntryInsert(p)
  \/ ReconcileSumGrants(p)
  \/ ReconcileSumUsage(p)

NextReconcile == \E p \in SeqProcs : IssueReconcile(p) \/ ReconcileStep(p)

SpecReconcile == Init /\ [][NextReconcile]_vars

\* C21 (as claimed): the calculatedTotal of reconcileBalance is the sum of
\* the user's grants minus the sum of the user's Completed ledger entries;
\* Pending and Refunded entries do not reduce it.
C21_CompletedOnly ==
  \A p \in SeqProcs :
    DoneWith(p, "reconcileBalance")
      => proc[p].result.calculatedTotal
           = TotalGranted(proc[p].userId) - TotalCompleted(proc[p].userId)

\* C22 (as claimed): when the wallet total equals the sum of the user's
\* grants and one Completed ledger entry of d credits has been added for
\* the user without updating the wallet, a reconciliation of the user
\* reports an inconsistency with difference = d.
C22_DetectsDrift ==
  \A p \in SeqProcs :
    (/\ DoneWith(p, "reconcileBalance") \/ DoneWith(p, "reconcileWalletBalance")
     /\ proc[p].pre # NoRow
     /\ proc[p].pre.totalCredits = TotalGranted(proc[p].userId)
     /\ Len(usageLedger) = 1
     /\ usageLedger[1].userId = proc[p].userId
     /\ usageLedger[1].status = "completed")
      => /\ proc[p].result.needsAdjustment
         /\ proc[p].result.difference = usageLedger[1].credits

\* C23: reconcileBalance reports walletTotal = the wallet's total,
\* difference = |walletTotal - calculatedTotal|, and an inconsistency iff
\* the difference is more than 1% of the wallet total: a difference of
\* exactly 1% is consistent, and with a wallet total of 0 every non-zero
\* difference is inconsistent.
C23_ThresholdRule ==
  \A p \in SeqProcs :
    DoneWith(p, "reconcileBalance")
      => LET r == proc[p].result
         IN  /\ r.walletTotal = proc[p].post.totalCredits
             /\ r.difference = Abs(r.walletTotal - r.calculatedTotal)
             /\ r.needsAdjustment <=> r.difference * 100 > r.walletTotal
             /\ r.difference * 100 = r.walletTotal /\ r.walletTotal > 0
                  => ~r.needsAdjustment
             /\ r.walletTotal = 0 /\ r.difference > 0 => r.needsAdjustment

\* a wallet of 100000 and a difference of 1000, exactly 1%: consistent
C23_Witness ==
  /\ DoneWith("p1", "reconcileBalance")
  /\ proc["p1"].result.walletTotal = 100000
  /\ proc["p1"].result.difference = 1000
  /\ ~proc["p1"].result.needsAdjustment

\* C24 (as claimed): a reconcileBalance or reconcileWalletBalance call, for
\* a user with or without wallet row, leaves the wallet table, the grant
\* log and the usage ledger as they were.
C24_ReconcileReadOnly ==
  \A p \in SeqProcs :
    (DoneWith(p, "reconcileBalance") \/ DoneWith(p, "reconcileWalletBalance"))
      => /\ proc[p].post = proc[p].pre
         /\ RowOf(proc[p].userId) = proc[p].pre
         /\ Len(creditGrants) = proc[p].preGrants
         /\ Len(usageLedger) = proc[p].preLedger

InitialGrants(userId) ==
  {i \in 1..Len(creditGrants) :
     creditGrants[i] = Grant(userId, "free", InitialFreeCredits, "monthly_free")}

\* C25: where getBalance is the only wallet call, a user has at most one
\* wallet row and at most one initial grant; the row holds freeCredits =
\* totalCredits = 100000 and 0 in the other buckets; once the creating call
\* has inserted its grant the user has exactly one initial grant; a
\* getBalance call that overlaps no other call creates the row and the
\* grant if the user had no row and creates nothing if the user had one;
\* and no step deletes a wallet row.
C25_LazyCreation ==
  /\ [](\A u \in Users :
          LET rows == {w \in walletBalances : w.userId = u}
              creating == \E q \in Procs : /\ proc[q].userId = u
                                           /\ proc[q].pc = "goc_insert_grant"
          IN  /\ rows = {} \/ rows = {NewWallet(u)}
              /\ Cardinality(InitialGrants(u)) <= 1
              /\ InitialGrants(u) # {} => rows # {}
              /\ (rows # {} /\ ~creating) => Cardinality(InitialGrants(u)) = 1)
  /\ [](\A p \in Procs :
          (/\ DoneWith(p, "getBalance")
           /\ proc[p].result.kind = "ok"
           /\ ~proc[p].overlapped)
            => IF proc[p].pre = NoRow
                 THEN /\ proc[p].post = NewWallet(proc[p].userId)
                      /\ Len(creditGrants) = proc[p].preGrants + 1
                 ELSE /\ proc[p].post = proc[p].pre
                      /\ Len(creditGrants) = proc[p].preGrants)
  /\ [][\A w \in walletBalances :
          \E v \in walletBalances' : v.userId = w.userId]_vars

\* the first access has created the wallet, a later access found it
C25_Witness ==
  /\ DoneWith("p1", "getBalance") /\ DoneWith("p2", "getBalance")
  /\ proc["p1"].pre = NoRow
  /\ proc["p1"].post = NewWallet("u1")
  /\ proc["p2"].pre = NewWallet("u1")
  /\ proc["p2"].result.kind = "ok"
  /\ walletBalances = {NewWallet("u1")}
  /\ Cardinality(InitialGrants("u1")) = 1

\* C26 (as claimed): a deductCredits call (without preferred source) for a
\* user without wallet row has the outcome and the final wallet of the same
\* call on the lazily created wallet: it draws on the initial free
\* allocation.
C26_DeductMaterializes ==
  \A p \in SeqProcs :
    (/\ DoneWith(p, "deductCredits")
     /\ proc[p].source = NoSource
     /\ proc[p].pre = NoRow)
      => LET created == NewWallet(proc[p].userId)
             plan == DeductAuto(created, proc[p].credits)
         IN  IF created.totalCredits < proc[p].credits
               THEN /\ proc[p].result
                         = InsufficientCreditsError(proc[p].credits,
                                                    created.totalCredits)
                    /\ proc[p].post = created
               ELSE /\ proc[p].result.kind = "ok"
                    /\ proc[p].post = DeductSet(created, plan)

\* the buckets a finished call has reduced
Reduced(p) ==
  {b \in Buckets : BucketOf(proc[p].post, b) < BucketOf(proc[p].pre, b)}

\* C27 (as claimed): a successful deductCredits returns the stored
\* totalCredits after the call and reports every bucket it reduced.
C27_ReportsEverySource ==
  \A p \in SeqProcs :
    (DoneWith(p, "deductCredits") /\ proc[p].result.kind = "ok")
      => /\ proc[p].result.remainingCredits = proc[p].post.totalCredits
         /\ proc[p].post = RowOf(proc[p].userId)
         /\ Reduced(p) \subseteq {proc[p].result.source}

\* C28: a recordUsage call whose usage data is missing or has no total
\* token count fails with InvalidUsageData, whatever the cost of the call
\* and the balance are, and leaves the wallet, the grant log and the ledger
\* as they were.
C28_InvalidUsageRejected ==
  \A p \in SeqProcs :
    (DoneWith(p, "recordUsage") /\ proc[p].tokens = 0)
      => /\ proc[p].result = InvalidUsageDataError
         /\ proc[p].post = proc[p].pre
         /\ RowOf(proc[p].userId) = proc[p].pre
         /\ Len(creditGrants) = proc[p].preGrants
         /\ Len(usageLedger) = proc[p].preLedger

\* a call without usage data, priced above what the affordability check accepts
C28_Witness ==
  /\ DoneWith("p1", "recordUsage")
  /\ proc["p1"].tokens = 0
  /\ proc["p1"].credits = 90000
  /\ proc["p1"].pre # NoRow
  /\ proc["p1"].result.kind = "InvalidUsageData"

\* C29 (as claimed): when the pricing function fails, recordUsage is not
\* failed by it: the cost is 5 credits per token of totalTokens and the
\* call goes on to the affordability check with that cost.
C29_FallbackRate ==
  \A p \in SeqProcs :
    (/\ DoneWith(p, "recordUsage")
     /\ proc[p].tokens > 0
     /\ proc[p].credits = 0)
      => /\ proc[p].result.kind \in {"ok", "InsufficientCredits"}
         /\ proc[p].result.kind = "ok"
              => proc[p].result.entry.credits = 5 * proc[p].tokens
         /\ proc[p].result.kind = "InsufficientCredits"
              => proc[p].result.required = Required(5 * proc[p].tokens)

(***************************************************************************)
(* BillingModel.generateIdempotencyKey: the key is the string              *)
(* `${userId}_${messageId}_${timestamp}`, timestamp being Date.now() at    *)
(* the call; the three parts are kept as the fields of a record.           *)
(***************************************************************************)
MaxTime == 3

Times == 1..MaxTime
MessageIds == {"m1", "m2"}

GenerateIdempotencyKey(messageId, userId, timestamp) ==
  [userId |-> userId, messageId |-> messageId, timestamp |-> timestamp]

\* a call of generateIdempotencyKey(messageId, userId) at the time now
GenerateKey(p, messageId, userId, now) ==
  /\ CanIssue(p)
  /\ nops' = nops + 1
  /\ proc' = Enter(p, Done(Issued(p, "generateIdempotencyKey", userId, 0,
                                  NoSource, messageId, "done"),
                           [OkResult EXCEPT !.generatedKey =
                              GenerateIdempotencyKey(messageId, userId, now)],
                           walletBalances))
  /\ UNCHANGED <<walletBalances, creditGrants, usageLedger, debited,
                 userSubscriptions, clock, FEATURE_FLAGS>>

NextKeys ==
  \E p \in Procs, m \in MessageIds, u \in Users, now \in Times :
    GenerateKey(p, m, u, now)

SpecKeys == Init /\ [][NextKeys]_vars

\* C30 (as claimed): two calls of generateIdempotencyKey with the same
\* messageId and userId, at any two times, return the same key.
C30_KeyStable ==
  \A p, q \in Procs :
    (/\ DoneWith(p, "generateIdempotencyKey")
     /\ DoneWith(q, "generateIdempotencyKey")
     /\ proc[p].key = proc[q].key
     /\ proc[p].userId = proc[q].userId)
      => proc[p].result.generatedKey = proc[q].result.generatedKey

(***************************************************************************)
(* SubscriptionModel: the rows of user_subscriptions carry the columns the *)
(* three operations read or write.  currentPeriodEnd = NoPeriodEnd is the  *)
(* null column.  Each operation is a SELECT followed by one statement.     *)
(***************************************************************************)
NoPeriodEnd == 0

PeriodEnds == {NoPeriodEnd, 2}

NoSubscription ==
  [id |-> 0, userId |-> "none", status |-> "none",
   cancelAtPeriodEnd |-> FALSE, currentPeriodEnd |-> NoPeriodEnd]

\* findFirst({ where: eq(userId), orderBy: [createdAt] }): ascending order,
\* the row of the user that was created first
GetUserSubscription(userId) ==
  IF \E i \in 1..Len(userSubscriptions) : userSubscriptions[i].userId = userId
    THEN userSubscriptions[
           CHOOSE i \in 1..Len(userSubscriptions) :
             /\ userSubscriptions[i].userId = userId
             /\ \A j \in 1..(i - 1) : userSubscriptions[j].userId # userId]
    ELSE NoSubscription

\* enrichSubscriptionWithDetails(subscription).isActive
IsActive(subscription) ==
  /\ subscription.status = "ACTIVE"
  /\ \/ subscription.currentPeriodEnd = NoPeriodEnd
     \/ subscription.currentPeriodEnd > clock

\* enrichSubscriptionWithDetails(subscription).isCancelled
IsCancelled(subscription) ==
  subscription.status = "CANCELLED" \/ subscription.cancelAtPeriodEnd

ConflictError == [NoResult EXCEPT !.kind = "Conflict"]

SubscriptionNotFoundError == [NoResult EXCEPT !.kind = "SubscriptionNotFound"]

BadRequestError == [NoResult EXCEPT !.kind = "BadRequest"]

\* UPDATE user_subscriptions SET ... WHERE user_id = userId: every row of
\* the user takes the new status and cancelAtPeriodEnd
UpdateSubscriptions(userId, status, cancelAtPeriodEnd) ==
  [i \in 1..Len(userSubscriptions) |->
     IF userSubscriptions[i].userId = userId
       THEN [userSubscriptions[i] EXCEPT
               !.status = status, !.cancelAtPeriodEnd = cancelAtPeriodEnd]
       ELSE userSubscriptions[i]]

SubscriptionCall(p, op, userId, result) ==
  /\ CanIssue(p)
  /\ nops' = nops + 1
  /\ proc' = Enter(p, Done(Issued(p, op, userId, 0, NoSource, "none", "done"),
                           result, walletBalances))
  /\ UNCHANGED <<walletBalances, creditGrants, usageLedger, debited,
                 clock, FEATURE_FLAGS>>

CreateSubscription(p, userId, currentPeriodEnd) ==
  LET existingSubscription == GetUserSubscription(userId)
  IN IF existingSubscription # NoSubscription /\ IsActive(existingSubscription)
       THEN /\ SubscriptionCall(p, "createSubscription", userId, ConflictError)
            /\ UNCHANGED userSubscriptions
       ELSE /\ SubscriptionCall(p, "createSubscription", userId, OkResult)
            /\ userSubscriptions' =
                 Append(userSubscriptions,
                        [id |-> Len(userSubscriptions) + 1, userId |-> userId,
                         status |-> "ACTIVE", cancelAtPeriodEnd |-> FALSE,
                         currentPeriodEnd |-> currentPeriodEnd])

CancelSubscription(p, userId, cancelAtPeriodEnd) ==
  LET subscription == GetUserSubscription(userId)
  IN IF subscription = NoSubscription
       THEN /\ SubscriptionCall(p, "cancelSubscription", userId,
                                SubscriptionNotFoundError)
            /\ UNCHANGED userSubscriptions
       ELSE /\ SubscriptionCall(p, "cancelSubscription", userId, OkResult)
            /\ userSubscriptions' =
                 [i \in 1..Len(userSubscriptions) |->
                    IF userSubscriptions[i].userId # userId
                      THEN userSubscriptions[i]
                    ELSE IF cancelAtPeriodEnd
                      THEN [userSubscriptions[i] EXCEPT
                              !.cancelAtPeriodEnd = TRUE]
                    ELSE [userSubscriptions[i] EXCEPT
                            !.cancelAtPeriodEnd = FALSE,
                            !.status = "CANCELLED"]]

ReactivateSubscription(p, userId) ==
  LET subscription == GetUserSubscription(userId)
  IN IF subscription = NoSubscription
       THEN /\ SubscriptionCall(p, "reactivateSubscription", userId,
                                SubscriptionNotFoundError)
            /\ UNCHANGED userSubscriptions
     ELSE IF \/ ~subscription.cancelAtPeriodEnd /\ ~IsCancelled(subscription)
             \/ /\ subscription.currentPeriodEnd # NoPeriodEnd
                /\ subscription.currentPeriodEnd < clock
       THEN /\ SubscriptionCall(p, "reactivateSubscription", userId,
                                BadRequestError)
            /\ UNCHANGED userSubscriptions
     ELSE /\ SubscriptionCall(p, "reactivateSubscription", userId, OkResult)
          /\ userSubscriptions' = UpdateSubscriptions(userId, "ACTIVE", FALSE)

\* time passes between two calls
Tick ==
  /\ clock < MaxTime
  /\ clock' = clock + 1
  /\ UNCHANGED <<walletBalances, creditGrants, usageLedger, proc, debited,
                 nops, userSubscriptions, FEATURE_FLAGS>>

IssueSubscription(p) ==
  \/ \E u \in SeqUsers, e \in PeriodEnds : CreateSubscription(p, u, e)
  \/ \E u \in SeqUsers, c \in BOOLEAN : CancelSubscription(p, u, c)
  \/ \E u \in SeqUsers : ReactivateSubscription(p, u)

NextSubscription == (\E p \in SeqProcs : IssueSubscription(p)) \/ Tick

SpecSubscription == Init /\ [][NextSubscription]_vars

ActiveSubscriptions(userId) ==
  {i \in 1..Len(userSubscriptions) :
     /\ userSubscriptions[i].userId = userId
     /\ IsActive(userSubscriptions[i])}

\* C31 (as claimed): after any sequence of createSubscription,
\* cancelSubscription and reactivateSubscription a user has at most one
\* active subscription: at most one row with status ACTIVE whose period has
\* not ended.
C31_OneActiveSubscription ==
  \A u \in Users : Cardinality(ActiveSubscriptions(u)) <= 1

(***************************************************************************)
(* Amounts and scope of the wallet operations.                             *)
(***************************************************************************)
\* C32: a successful deductCredits of c > 0 credits, no other call in
\* between, leaves totalCredits lower by exactly c; no bucket is higher than
\* before and the reductions of the three buckets sum to c.
C32_DeductExact ==
  \A p \in SeqProcs :
    (/\ DoneWith(p, "deductCredits")
     /\ proc[p].result.kind = "ok"
     /\ proc[p].credits > 0)
      => /\ proc[p].post.totalCredits = proc[p].pre.totalCredits - proc[p].credits
         /\ proc[p].result.remainingCredits = proc[p].post.totalCredits
         /\ \A b \in Buckets :
              BucketOf(proc[p].post, b) <= BucketOf(proc[p].pre, b)
         /\ (proc[p].pre.packageCredits - proc[p].post.packageCredits)
              + (proc[p].pre.subscriptionCredits - proc[p].post.subscriptionCredits)
              + (proc[p].pre.freeCredits - proc[p].post.freeCredits)
            = proc[p].credits

\* a deduction of 150 that empties the package bucket and goes on to the
\* free bucket
C32_Witness ==
  /\ DoneWith("p1", "deductCredits")
  /\ proc["p1"].result.kind = "ok"
  /\ proc["p1"].credits = 150
  /\ proc["p1"].pre.packageCredits > 0
  /\ proc["p1"].post.packageCredits = 0
  /\ proc["p1"].post.freeCredits < proc["p1"].pre.freeCredits

\* amounts on both sides of zero
SignedGrantAmounts == {-30, 0, 50}

SignedDeductAmounts == {-40, 0, 70}

IssueAmounts(p) ==
  \/ \E u \in SeqUsers : GetBalance(p, u)
  \/ \E u \in SeqUsers, c \in SignedGrantAmounts, s \in {"free", "package"} :
       GrantCredits(p, u, c, s)
  \/ \E u \in SeqUsers, c \in SignedDeductAmounts, s \in {"free", NoSource} :
       DeductCredits(p, u, c, s)
  \/ \E u \in SeqUsers, a \in ResetAmounts : ResetFreeCredits(p, u, a)

NextAmounts == \E p \in SeqProcs : IssueAmounts(p) \/ WalletStep(p)

SpecAmounts == Init /\ [][NextAmounts]_vars

\* C33 (as claimed): a grantCredits or deductCredits call with credits <= 0
\* for a user with a wallet row changes no bucket and no total and writes no
\* grant row, and no deductCredits call leaves a bucket or the total higher
\* than it was.
C33_PositiveAmountsOnly ==
  \A p \in SeqProcs :
    /\ (/\ proc[p].pc = "done"
        /\ proc[p].op \in {"grantCredits", "deductCredits"}
        /\ proc[p].credits <= 0
        /\ proc[p].pre # NoRow)
         => /\ proc[p].post = proc[p].pre
            /\ Len(creditGrants) = proc[p].preGrants
    /\ (DoneWith(p, "deductCredits") /\ proc[p].pre # NoRow)
         => /\ \A b \in Buckets :
                 BucketOf(proc[p].post, b) <= BucketOf(proc[p].pre, b)
            /\ proc[p].post.totalCredits <= proc[p].pre.totalCredits

(***************************************************************************)
(* Retries: one worker writes ledger entries through BillingModel and      *)
(* calls BillingService.recordUsage with keys that may be in the ledger.   *)
(***************************************************************************)
IssueRetry(p) ==
  \/ \E u \in SeqUsers : GetBalance(p, u)
  \/ \E u \in SeqUsers, c \in PricedCredits, k \in Keys :
       CreateUsageLedgerEntry(p, u, c, "free", k)
  \/ \E u \in SeqUsers, c \in PricedCredits, k \in Keys :
       RecordUsage(p, u, k, 100, c)

NextRetry == \E p \in SeqProcs : IssueRetry(p) \/ LedgerStep(p)

SpecRetry == Init /\ [][NextRetry]_vars

\* C34 (as claimed): a recordUsage call whose key is the key of an entry of
\* the same user and amount in the ledger does not reach the affordability
\* check: it ends normally, never with InsufficientCredits.
C34_LookupBeforeAffordability ==
  \A p \in SeqProcs :
    (/\ DoneWith(p, "recordUsage")
     /\ proc[p].preEntry # NoEntry
     /\ proc[p].preEntry.userId = proc[p].userId
     /\ proc[p].preEntry.credits = proc[p].credits)
      => proc[p].result.kind = "ok"

\* C35 (as claimed): the source on the entry a successful recordUsage
\* returns, for a user with a wallet row, names a bucket that the call
\* reduced.
C35_SourceIsReducedBucket ==
  \A p \in SeqProcs :
    (/\ DoneWith(p, "recordUsage")
     /\ proc[p].result.kind = "ok"
     /\ proc[p].pre # NoRow)
      => BucketOf(proc[p].post, proc[p].result.entry.source)
           < BucketOf(proc[p].pre, proc[p].result.entry.source)

\* the wallet row of a finished resetFreeCredits call: free = amount, the
\* other two buckets as before the call, the total their sum
ResetRow(p) ==
  /\ proc[p].post.freeCredits = proc[p].credits
  /\ proc[p].post.subscriptionCredits = proc[p].pre.subscriptionCredits
  /\ proc[p].post.packageCredits = proc[p].pre.packageCredits
  /\ proc[p].post.totalCredits = BucketSum(proc[p].post)

\* the grant log ends with the Free grant of the reset
ResetGrantLast(p) ==
  /\ Len(creditGrants) >= 1
  /\ creditGrants[Len(creditGrants)]
       = Grant(proc[p].userId, "free", proc[p].credits, "monthly_free")

\* C36 (as claimed): every resetFreeCredits(userId, amount) leaves
\* freeCredits = amount, the other buckets as they were, the total their
\* sum, and the grant log longer by exactly one row, the Free grant of
\* amount credits.
C36_ResetEffectAsClaimed ==
  \A p \in SeqProcs :
    DoneWith(p, "resetFreeCredits")
      => /\ ResetRow(p)
         /\ ResetGrantLast(p)
         /\ Len(creditGrants) = proc[p].preGrants + 1

\* C36 (amended): the same, the grant log longer by exactly one row when the
\* user had a wallet row; for a user without wallet row the call first
\* creates the row with its initial grant, and the log is longer by two
\* rows, the initial grant and then the grant of the reset.
C36_ResetEffect ==
  \A p \in SeqProcs :
    DoneWith(p, "resetFreeCredits")
      => /\ ResetRow(p)
         /\ ResetGrantLast(p)
         /\ proc[p].pre # NoRow => Len(creditGrants) = proc[p].preGrants + 1
         /\ proc[p].pre = NoRow
              => /\ Len(creditGrants) = proc[p].preGrants + 2
                 /\ creditGrants[Len(creditGrants) - 1]
                      = Grant(proc[p].userId, "free", InitialFreeCredits,
                              "monthly_free")

\* a reset to 100 of a wallet that held package credits and another free
\* balance
C36_Witness ==
  /\ DoneWith("p1", "resetFreeCredits")
  /\ proc["p1"].pre # NoRow
  /\ proc["p1"].pre.freeCredits # proc["p1"].credits
  /\ proc["p1"].pre.packageCredits > 0
  /\ proc["p1"].post.freeCredits = 100

(***************************************************************************)
(* Two users, one worker: the wallet calls of one user next to the rows of *)
(* the other.                                                              *)
(***************************************************************************)
IssueScope(p) ==
  \/ \E u \in Users : GetBalance(p, u)
  \/ \E u \in Users : GrantCredits(p, u, 50, "package")
  \/ \E u \in Users : DeductCredits(p, u, 70, NoSource)
  \/ \E u \in Users, a \in ResetAmounts : ResetFreeCredits(p, u, a)
  \/ \E u \in Users : ReconcileBalance(p, u)
  \/ \E u \in Users, k \in Keys : CreateUsageLedgerEntry(p, u, 120, "free", k)

NextScope == \E p \in SeqProcs : IssueScope(p) \/ ReconcileStep(p) \/ WalletStep(p)

SpecScope == Init /\ [][NextScope]_vars

\* the rows of a table (a sequence) that belong to userId, with their places
RowsOf(table, userId) ==
  {<<i, table[i]>> : i \in {j \in 1..Len(table) : table[j].userId = userId}}

\* C37: no step of a getBalance, grantCredits, deductCredits,
\* resetFreeCredits or reconcileBalance call for user A changes the wallet
\* row, the grant rows or the ledger entries of another user B.
C37_ScopedToUser ==
  [][\A p \in SeqProcs, b \in Users :
       (/\ proc'[p].op \in {"getBalance", "grantCredits", "deductCredits",
                            "resetFreeCredits", "reconcileBalance"}
        /\ proc'[p].userId # b)
         => /\ FindWallet(b)' = FindWallet(b)
            /\ RowsOf(creditGrants, b)' = RowsOf(creditGrants, b)
            /\ RowsOf(usageLedger, b)' = RowsOf(usageLedger, b)]_vars

\* u1 was debited while u2 had a wallet row, a grant and a ledger entry
C37_Witness ==
  /\ DoneWith("p1", "deductCredits")
  /\ proc["p1"].userId = "u1"
  /\ proc["p1"].result.kind = "ok"
  /\ HasWallet("u2")
  /\ RowsOf(creditGrants, "u2") # {}
  /\ RowsOf(usageLedger, "u2") # {}

\* C38 (as claimed): in every state a user's wallet row with the initial
\* 100000 free credits comes with exactly one initial Free grant of that
\* user, and every getBalance call, overlapped or not, ends without error.
C38_CreationAtomic ==
  /\ \A u \in Users :
       NewWallet(u) \in walletBalances => Cardinality(InitialGrants(u)) = 1
  /\ \A p \in Procs : DoneWith(p, "getBalance") => proc[p].result.kind = "ok"

MaxIdLen == 2

\* code units of "0", "a" and "z"
Alphabet == {48, 97, 122}

\* "user_"
UserPrefix == <<117, 115, 101, 114, 95>>

Suffixes == UNION {[1..n -> Alphabet] : n \in 0..MaxIdLen}

UserIds == Suffixes \cup {UserPrefix \o s : s \in Suffixes}

RolloutPercentages == {-5, 0, 1, 30, 50, 99, 100, 150}

\* hash = (hash << 5) - hash + char; hash = hash & hash: 31 * hash + char,
\* reduced to 32 bits
HashStep(hash, char) ==
  LET low == hash[2] * 31 + char
      high == hash[1] * 31 + (low \div 65536)
  IN  <<high % 65536, low % 65536>>

RECURSIVE HashUpTo(_, _)
\* the value of hash after the first i iterations of the loop
HashUpTo(userId, i) ==
  IF i = 0 THEN <<0, 0>>
  ELSE HashStep(HashUpTo(userId, i - 1), userId[i])

Hash(userId) == HashUpTo(userId, Len(userId))

\* the sign bit of the 32-bit value
IsNegative(hash) == hash[1] >= 32768

\* (high * 65536 + low) % 100
Mod100(high, low) == (((high % 100) * (65536 % 100)) + (low % 100)) % 100

\* |hash| % 100; for a negative hash |hash| = 2^32 - (high * 65536 + low)
MagnitudeMod100(hash) ==
  IF IsNegative(hash) THEN Mod100(65535 - hash[1], 65536 - hash[2])
  ELSE Mod100(hash[1], hash[2])

\* hash % 100 without Math.abs: the remainder takes the sign of the hash
UserPercentileSigned(userId) ==
  IF IsNegative(Hash(userId)) THEN 0 - MagnitudeMod100(Hash(userId))
  ELSE MagnitudeMod100(Hash(userId))

\* Math.abs(hash % 100)
UserPercentile(userId) == MagnitudeMod100(Hash(userId))

\* isBillingEnabledForUser(userId) under the flags
IsBillingEnabledUnder(flags, userId) ==
  IF ~flags.ENABLE_BILLING THEN FALSE
  ELSE IF flags.ROLLOUT_PERCENTAGE >= 100 THEN TRUE
  ELSE IF flags.ROLLOUT_PERCENTAGE <= 0 THEN FALSE
  ELSE UserPercentile(userId) < flags.ROLLOUT_PERCENTAGE

IsBillingEnabledForUser(userId) == IsBillingEnabledUnder(FEATURE_FLAGS, userId)

\* a call of isBillingEnabledForUser(userId)
BillingEnabledCall(p, userId) ==
  /\ CanIssue(p)
  /\ nops' = nops + 1
  /\ proc' = Enter(p, Done(Issued(p, "isBillingEnabledForUser", userId, 0,
                                  NoSource, "none", "done"),
                           [OkResult EXCEPT
                              !.enabled = IsBillingEnabledForUser(userId)],
                           walletBalances))
  /\ UNCHANGED <<walletBalances, creditGrants, usageLedger, debited,
                 userSubscriptions, clock, FEATURE_FLAGS>>

\* the process has read ENABLE_BILLING and BILLING_ROLLOUT_PERCENTAGE
InitRollout ==
  /\ walletBalances = {}
  /\ creditGrants = <<>>
  /\ usageLedger = <<>>
  /\ proc = [p \in Procs |-> Idle]
  /\ debited = [u \in Users |-> 0]
  /\ nops = 0
  /\ userSubscriptions = <<>>
  /\ clock = 1
  /\ FEATURE_FLAGS \in [ENABLE_BILLING : BOOLEAN,
                        ROLLOUT_PERCENTAGE : RolloutPercentages]

NextRollout == \E p \in SeqProcs, u \in UserIds : BillingEnabledCall(p, u)

SpecRollout == InitRollout /\ [][NextRollout]_vars

\* C40: the percentile of every userId is in 0..99; with ENABLE_BILLING off
\* every user is disabled; with it on every user is disabled at 0 and
\* enabled at 100, and a user enabled at the percentage of the process is
\* enabled at every higher percentage; and two calls in a row for the same
\* userId give the same answer.
C40_Rollout ==
  /\ [](\A p \in SeqProcs :
          DoneWith(p, "isBillingEnabledForUser")
            => LET userId == proc[p].userId
                   percentage == FEATURE_FLAGS.ROLLOUT_PERCENTAGE
                   enabled == proc[p].result.enabled
               IN  /\ UserPercentile(userId) \in 0..99
                   /\ ~FEATURE_FLAGS.ENABLE_BILLING => ~enabled
                   /\ (FEATURE_FLAGS.ENABLE_BILLING /\ percentage = 0) => ~enabled
                   /\ (FEATURE_FLAGS.ENABLE_BILLING /\ percentage = 100) => enabled
                   /\ (FEATURE_FLAGS.ENABLE_BILLING /\ percentage \in 1..99)
                        => (enabled <=> UserPercentile(userId) < percentage)
                   /\ enabled
                        => \A higher \in RolloutPercentages :
                             higher >= percentage
                               => IsBillingEnabledUnder(
                                    [FEATURE_FLAGS EXCEPT
                                       !.ROLLOUT_PERCENTAGE = higher], userId))
  /\ [][\A p \in SeqProcs :
          (/\ DoneWith(p, "isBillingEnabledForUser")
           /\ proc'[p].pc = "done"
           /\ proc'[p].op = "isBillingEnabledForUser"
           /\ proc'[p].userId = proc[p].userId)
            => proc'[p].result.enabled = proc[p].result.enabled]_vars

\* a user whose hash overflowed to a negative 32-bit value, enabled at 30%
C40_Witness ==
  /\ DoneWith("p1", "isBillingEnabledForUser")
  /\ FEATURE_FLAGS = [ENABLE_BILLING |-> TRUE, ROLLOUT_PERCENTAGE |-> 30]
  /\ Len(proc["p1"].userId) > Len(UserPrefix)
  /\ IsNegative(Hash(proc["p1"].userId))
  /\ proc["p1"].result.enabled

====
